---- MODULE Spec2Model ----
(***************************************************************************)
(* Model of generate_bcrypt.py: a straight-line script that draws a random *)
(* token, creates a temporary file, restricts its mode, writes the token   *)
(* through a buffered text file object, closes it and prints advisory      *)
(* lines.  Two runs of the script share one file system, so a property of  *)
(* a pair of runs is checked on every interleaving of their steps.         *)
(*                                                                         *)
(* Text is a sequence of symbols.  A literal fragment of a format string   *)
(* is one symbol, the random part of a temporary name is one symbol, and a *)
(* token is a sequence of one-character symbols, so "this line contains    *)
(* the token" is a real subsequence test.                                  *)
(***************************************************************************)
EXTENDS Integers, Sequences, FiniteSets, TLC

\* The two runs of the script (the properties quantify over pairs of runs).
Runs == {1, 2}

\* Length of a token in characters (43 in the program: 32 bytes, base64).
TokenLen == 2

\* Characters of the url-safe alphabet used by the model.
Alphabet == {"a", "B"}

\* Every value secrets.token_urlsafe may return.
Tokens == [1..TokenLen -> Alphabet]

\* Random parts mkstemp may draw for a name (8 characters of [a-z0-9_]).
NameParts == {"k3x9_q0z", "m7pa2w_c"}

\* Permission bits as sets: 0600, 0644 and the umasks 022 and 0222.
M0600 == {"ur", "uw"}
M0644 == {"ur", "uw", "gr", "or"}
U022 == {"gw", "ow"}
U222 == {"uw", "gw", "ow"}
Umasks == {U022, U222}

\* "No value yet" for a token, a name, a file.
NoToken == <<>>
NoName == <<>>
NoFile == [exists |-> FALSE, mode |-> {}, content |-> <<>>, creator |-> 0, touched |-> {}]

VARIABLES
    umask,      \* the process umask both runs inherit
    fs,         \* file system: random name part -> file
    pc,         \* each run's position in the script
    strong_password, \* each run's token (line 11)
    name,       \* each run's temp_file.name (a path, as text)
    buf,        \* each run's file-object text buffer
    fdOpen,     \* each run: is the descriptor open
    stdout,     \* each run's standard output, a sequence of lines
    stderr,     \* each run's standard error, a sequence of lines
    exitcode,   \* each run's exit status, -1 while running
    hist        \* each run's attempted steps, in order: [step, ok]

vars == <<umask, fs, pc, strong_password, name, buf, fdOpen, stdout, stderr, exitcode, hist>>

----------------------------------------------------------------------------
\* Pure helpers

\* tempfile's name: dir + prefix + random part + suffix (line 15)
TempPath(n) == <<"/tmp/", "bcrypt_password_", n, ".txt">>

\* The random part of a path built by TempPath
PartOf(p) == p[3]

\* The first k symbols of s
Prefix(s, k) == SubSeq(s, 1, k)

\* t occurs in s as a contiguous subsequence
Contains(s, t) ==
    \E i \in 0..(Len(s) - Len(t)) : SubSeq(s, i + 1, i + Len(t)) = t

\* Number of entries of h for step s
Attempts(h, s) == Cardinality({i \in 1..Len(h) : h[i].step = s})

\* Step s was attempted in h and succeeded
Succeeded(h, s) == \E i \in 1..Len(h) : h[i].step = s /\ h[i].ok
\* Step s was attempted in h and failed
Failed(h, s) == \E i \in 1..Len(h) : h[i].step = s /\ ~h[i].ok

----------------------------------------------------------------------------
\* Parameters the script passes to the library

\* mkstemp opens the file with mode 0600 (NamedTemporaryFile, line 15)
CreateMode == M0600

ChmodModeWide == M0644

\* os.chmod(temp_file.name, 0o600) (line 18)
ChmodMode == M0600

DeleteOnCloseTrue == TRUE

\* delete=False (line 15): closing the file object does not unlink it
DeleteOnClose == FALSE

WriteTextNewline(t) == t \o <<"\n">>

\* temp_file.write(strong_password): the text handed to write (line 21)
WriteText(t) == t

CandidatesNoExcl == NameParts

\* mkstemp opens with O_CREAT | O_EXCL and draws again while the name is
\* taken: the name it returns is one that did not exist
Candidates == {n \in NameParts : ~fs[n].exists}

\* The message of the exception raised by a failing step
ErrMsg(step) == "OSError: " \o step

StdoutLinesLeak(r) ==
    << <<"Password written to: ">> \o strong_password[r],
       <<"File permissions: 0600 (owner-only)">>,
       <<"\nTo generate the bcrypt hash:">>,
       <<"1. Install bcrypt: pip install bcrypt">>,
       <<"2. Run: python3 -c \"import bcrypt; passwd=$(cat ">> \o name[r]
          \o <<"); print(bcrypt.hashpw(passwd.encode(), bcrypt.gensalt(rounds=12)).decode())\"">>,
       <<"\n(!)  IMPORTANT: Delete the file after use: rm ">> \o name[r],
       <<"(!)  Never commit this password file to version control">>,
       <<"(!)  For production, store passwords in a secrets manager (e.g., AWS Secrets Manager, Vault)">> >>

\* The eight print statements of lines 25-32, in order ((!) is the warning sign)
StdoutLines(r) ==
    << <<"Password written to: ">> \o name[r],
       <<"File permissions: 0600 (owner-only)">>,
       <<"\nTo generate the bcrypt hash:">>,
       <<"1. Install bcrypt: pip install bcrypt">>,
       <<"2. Run: python3 -c \"import bcrypt; passwd=$(cat ">> \o name[r]
          \o <<"); print(bcrypt.hashpw(passwd.encode(), bcrypt.gensalt(rounds=12)).decode())\"">>,
       <<"\n(!)  IMPORTANT: Delete the file after use: rm ">> \o name[r],
       <<"(!)  Never commit this password file to version control">>,
       <<"(!)  For production, store passwords in a secrets manager (e.g., AWS Secrets Manager, Vault)">> >>

\* Number of print statements in the try block
NumPrints == Len(StdoutLines(1))

\* The file a run's path names
FileOf(r) == fs[PartOf(name[r])]

----------------------------------------------------------------------------
\* State after the interpreter has started both runs

Init ==
    /\ umask \in Umasks
    /\ fs = [n \in NameParts |-> NoFile]
    /\ pc = [r \in Runs |-> "generate"]
    /\ strong_password = [r \in Runs |-> NoToken]
    /\ name = [r \in Runs |-> NoName]
    /\ buf = [r \in Runs |-> <<>>]
    /\ fdOpen = [r \in Runs |-> FALSE]
    /\ stdout = [r \in Runs |-> <<>>]
    /\ stderr = [r \in Runs |-> <<>>]
    /\ exitcode = [r \in Runs |-> -1]
    /\ hist = [r \in Runs |-> <<>>]

\* The step of run r is recorded in its history
Record(r, step, ok) ==
    hist' = [hist EXCEPT ![r] = Append(@, [step |-> step, ok |-> ok])]

\* An exception outside the try block (lines 11, 15): the interpreter writes
\* the traceback with the message to standard error and exits with status 1
Uncaught(r, e) ==
    /\ stderr' = [stderr EXCEPT ![r] = Append(@, <<"Traceback (most recent call last): ", e>>)]
    /\ exitcode' = [exitcode EXCEPT ![r] = 1]
    /\ pc' = [pc EXCEPT ![r] = "done"]

ExceptSwallow(r, e) ==
    /\ stderr' = [stderr EXCEPT ![r] = Append(@, <<"Error: ", e>>)]
    /\ exitcode' = [exitcode EXCEPT ![r] = 0]
    /\ pc' = [pc EXCEPT ![r] = "done"]

\* except Exception as e (lines 34-36): print "Error: e" to standard error,
\* then raise: the interpreter writes the traceback and exits with status 1
\* (the buffer of a file object still open is empty then, so the close at
\* interpreter exit writes nothing)
ExceptHandler(r, e) ==
    /\ stderr' = [stderr EXCEPT ![r] =
                    @ \o << <<"Error: ", e>>, <<"Traceback (most recent call last): ", e>> >>]
    /\ exitcode' = [exitcode EXCEPT ![r] = 1]
    /\ pc' = [pc EXCEPT ![r] = "done"]

----------------------------------------------------------------------------
\* The steps of a run

\* line 11: strong_password = secrets.token_urlsafe(32)
Generate(r) ==
    /\ pc[r] = "generate"
    /\ \E t \in Tokens : strong_password' = [strong_password EXCEPT ![r] = t]
    /\ pc' = [pc EXCEPT ![r] = "create"]
    /\ Record(r, "generate", TRUE)
    /\ UNCHANGED <<umask, fs, name, buf, fdOpen, stdout, stderr, exitcode>>

\* line 11 raising (no randomness source): not handled, fatal
GenerateFail(r) ==
    /\ pc[r] = "generate"
    /\ Uncaught(r, ErrMsg("generate"))
    /\ Record(r, "generate", FALSE)
    /\ UNCHANGED <<umask, fs, strong_password, name, buf, fdOpen, stdout>>

\* line 15: NamedTemporaryFile creates and opens an empty file; the kernel
\* clears the umask's bits from the requested mode
Create(r) ==
    /\ pc[r] = "create"
    /\ \E n \in Candidates :
          /\ fs' = [fs EXCEPT ![n] = [exists |-> TRUE, mode |-> CreateMode \ umask,
                                      content |-> <<>>, creator |-> r, touched |-> {}]]
          /\ name' = [name EXCEPT ![r] = TempPath(n)]
    /\ fdOpen' = [fdOpen EXCEPT ![r] = TRUE]
    /\ pc' = [pc EXCEPT ![r] = "chmod"]
    /\ Record(r, "create", TRUE)
    /\ UNCHANGED <<umask, strong_password, buf, stdout, stderr, exitcode>>

\* line 15 raising (for instance no write permission to the directory):
\* outside the try block
CreateFail(r) ==
    /\ pc[r] = "create"
    /\ Uncaught(r, ErrMsg("create"))
    /\ Record(r, "create", FALSE)
    /\ UNCHANGED <<umask, fs, strong_password, name, buf, fdOpen, stdout>>

\* line 18: os.chmod(temp_file.name, 0o600), by path
Chmod(r) ==
    /\ pc[r] = "chmod"
    /\ FileOf(r).exists
    /\ fs' = [fs EXCEPT ![PartOf(name[r])] =
                [@ EXCEPT !.mode = ChmodMode, !.touched = @ \cup {r}]]
    /\ pc' = [pc EXCEPT ![r] = "write"]
    /\ Record(r, "chmod", TRUE)
    /\ UNCHANGED <<umask, strong_password, name, buf, fdOpen, stdout, stderr, exitcode>>

ChmodFailRetry(r) ==
    /\ pc[r] = "chmod"
    /\ Record(r, "chmod", FALSE)
    /\ UNCHANGED <<umask, fs, pc, strong_password, name, buf, fdOpen, stdout, stderr, exitcode>>

\* line 18 raising
ChmodFail(r) ==
    /\ pc[r] = "chmod"
    /\ ExceptHandler(r, ErrMsg("chmod"))
    /\ Record(r, "chmod", FALSE)
    /\ UNCHANGED <<umask, fs, strong_password, name, buf, fdOpen, stdout>>

\* line 21: temp_file.write(strong_password) puts the text in the buffer
Write(r) ==
    /\ pc[r] = "write"
    /\ buf' = [buf EXCEPT ![r] = @ \o WriteText(strong_password[r])]
    /\ pc' = [pc EXCEPT ![r] = "close"]
    /\ Record(r, "write", TRUE)
    /\ UNCHANGED <<umask, fs, strong_password, name, fdOpen, stdout, stderr, exitcode>>

\* line 21 raising
WriteFail(r) ==
    /\ pc[r] = "write"
    /\ ExceptHandler(r, ErrMsg("write"))
    /\ Record(r, "write", FALSE)
    /\ UNCHANGED <<umask, fs, strong_password, name, buf, fdOpen, stdout>>

CloseSkipped(r) ==
    /\ pc[r] = "close"
    /\ pc' = [pc EXCEPT ![r] = "print"]
    /\ Record(r, "close", TRUE)
    /\ UNCHANGED <<umask, fs, strong_password, name, buf, fdOpen, stdout, stderr, exitcode>>

\* line 22: temp_file.close() flushes the buffer to the file and closes the
\* descriptor; with delete=True it would unlink the file as well
Close(r) ==
    /\ pc[r] = "close"
    /\ fs' = [fs EXCEPT ![PartOf(name[r])] =
                IF DeleteOnClose THEN NoFile
                ELSE [@ EXCEPT !.content = @ \o buf[r], !.touched = @ \cup {r}]]
    /\ buf' = [buf EXCEPT ![r] = <<>>]
    /\ fdOpen' = [fdOpen EXCEPT ![r] = FALSE]
    /\ pc' = [pc EXCEPT ![r] = "print"]
    /\ Record(r, "close", TRUE)
    /\ UNCHANGED <<umask, strong_password, name, stdout, stderr, exitcode>>

\* line 22 raising (for instance the disk is full): any part of the buffer
\* may have reached the file; the descriptor is closed all the same
CloseFail(r) ==
    /\ pc[r] = "close"
    /\ \E k \in 0..Len(buf[r]) :
          fs' = [fs EXCEPT ![PartOf(name[r])] =
                   [@ EXCEPT !.content = @ \o Prefix(buf[r], k), !.touched = @ \cup {r}]]
    /\ buf' = [buf EXCEPT ![r] = <<>>]
    /\ fdOpen' = [fdOpen EXCEPT ![r] = FALSE]
    /\ ExceptHandler(r, ErrMsg("close"))
    /\ Record(r, "close", FALSE)
    /\ UNCHANGED <<umask, strong_password, name, stdout>>

\* lines 25-32: the next print statement writes its line
PrintLine(r) ==
    /\ pc[r] = "print"
    /\ Len(stdout[r]) < NumPrints
    /\ stdout' = [stdout EXCEPT ![r] = Append(@, StdoutLines(r)[Len(@) + 1])]
    /\ Record(r, "print", TRUE)
    /\ UNCHANGED <<umask, fs, pc, strong_password, name, buf, fdOpen, stderr, exitcode>>

\* lines 25-32: the next print statement raises (standard output cannot be
\* written, or cannot encode the line), inside the try block
PrintFail(r) ==
    /\ pc[r] = "print"
    /\ Len(stdout[r]) < NumPrints
    /\ ExceptHandler(r, ErrMsg("print"))
    /\ Record(r, "print", FALSE)
    /\ UNCHANGED <<umask, fs, strong_password, name, buf, fdOpen, stdout>>

\* end of the script after line 32: exit with status 0
Finish(r) ==
    /\ pc[r] = "print"
    /\ Len(stdout[r]) = NumPrints
    /\ exitcode' = [exitcode EXCEPT ![r] = 0]
    /\ pc' = [pc EXCEPT ![r] = "done"]
    /\ UNCHANGED <<umask, fs, strong_password, name, buf, fdOpen, stdout, stderr, hist>>

\* One step of run r
RunStep(r) ==
    \/ Generate(r)
    \/ GenerateFail(r)
    \/ Create(r)
    \/ CreateFail(r)
    \/ Chmod(r)
    \/ ChmodFail(r)
    \/ Write(r)
    \/ WriteFail(r)
    \/ Close(r)
    \/ CloseFail(r)
    \/ PrintLine(r)
    \/ PrintFail(r)
    \/ Finish(r)

Next == \E r \in Runs : RunStep(r)

Spec == Init /\ [][Next]_vars

\* The script is synchronous straight-line code: a run that can take its
\* next step takes it
FairSpec == Spec /\ \A r \in Runs : WF_vars(RunStep(r))

----------------------------------------------------------------------------
\* Vocabulary of the properties

\* Run r has ended
Exited(r) == pc[r] = "done"

\* Run r holds the path of a file it created
Created(r) == name[r] # NoName

\* The steps that materialize the secret on disk
FsSteps == {"create", "chmod", "write", "close"}

\* The steps a run makes once
OnceSteps == {"generate"} \cup FsSteps

\* Some line of the stream out carries the text t
Carries(out, t) == \E i \in 1..Len(out) : Contains(out[i], t)

\* The files run r created
FilesOf(r) == {n \in NameParts : fs[n].exists /\ fs[n].creator = r}

----------------------------------------------------------------------------
\* C1: at every point of every run, successful or failing, no line written
\* to standard output contains the run's token; the lines that refer to the
\* secret (the first, the hashing instruction, the deletion reminder) carry
\* the temporary file's path instead.
C1_NoSecretOnStdout ==
    \A r \in Runs :
        /\ strong_password[r] # NoToken => ~Carries(stdout[r], strong_password[r])
        /\ \A i \in {1, 5, 6} : i <= Len(stdout[r]) => Contains(stdout[r][i], name[r])

\* C1 witness: a run has printed every line and left with status 0.
C1_Witness ==
    \E r \in Runs : exitcode[r] = 0 /\ Len(stdout[r]) = NumPrints

\* C2 (as stated): from creation to exit the file's mode is exactly 0600.
C2_ModeExactlyFromCreation ==
    \A r \in Runs : Created(r) => FileOf(r).mode = M0600

\* C2 (amended): from creation to exit the file's mode never grants anything
\* beyond owner read/write (no group or other access); it is exactly 0600
\* from creation when the umask clears no owner read/write bit, and in every
\* case once chmod has succeeded; and chmod has succeeded before any byte of
\* the secret is in the file or in its buffer.
C2_ModeNeverWider ==
    \A r \in Runs :
        Created(r) =>
            /\ FileOf(r).mode \subseteq M0600
            /\ (umask \cap M0600 = {}) => FileOf(r).mode = M0600
            /\ Succeeded(hist[r], "chmod") => FileOf(r).mode = M0600
            /\ (FileOf(r).content # <<>> \/ buf[r] # <<>>) => Succeeded(hist[r], "chmod")

\* C2 witness: under a umask that clears the owner's write bit, a file holds
\* the whole secret with mode 0600.
C2_Witness ==
    \E r \in Runs :
        /\ umask = U222
        /\ Created(r)
        /\ FileOf(r).content = strong_password[r]
        /\ FileOf(r).mode = M0600

\* C3: if creating the file, chmod, write or close fails, standard error
\* carries the underlying error message and the run ends with a non-zero
\* status; for the creation step as for the steps inside the try block.
C3_FailureReported ==
    \A r \in Runs : \A s \in FsSteps :
        Failed(hist[r], s) =>
            /\ Exited(r)
            /\ exitcode[r] # 0
            /\ Carries(stderr[r], <<ErrMsg(s)>>)

\* C3 witness: one run failed in creation and the other in close.
C3_Witness ==
    \E r1, r2 \in Runs :
        /\ Failed(hist[r1], "create") /\ Exited(r1)
        /\ Failed(hist[r2], "close") /\ Exited(r2)

\* C4: a run that exits with status 0 has created exactly one file, and the
\* file's content is exactly the token drawn at the start of the run.
C4_FileHoldsSecret ==
    \A r \in Runs :
        exitcode[r] = 0 =>
            /\ Cardinality(FilesOf(r)) = 1
            /\ FilesOf(r) = {PartOf(name[r])}
            /\ strong_password[r] \in Tokens
            /\ FileOf(r).content = strong_password[r]

\* C4 witness: both runs exited with status 0 having drawn the same token.
C4_Witness ==
    /\ \A r \in Runs : exitcode[r] = 0
    /\ \A r1, r2 \in Runs : strong_password[r1] = strong_password[r2]

C6_RunsIndependent ==
    \A r1, r2 \in Runs :
        r1 # r2 =>
            /\ (Created(r1) /\ Created(r2)) => name[r1] # name[r2]
            /\ Created(r1) => FileOf(r1).creator = r1 /\ FileOf(r1).touched \subseteq {r1}
            /\ Created(r2) => ~Carries(stdout[r1], name[r2])

\* C6 witness: both runs wrote their files and printed all their lines.
C6_Witness ==
    \A r \in Runs :
        /\ Len(stdout[r]) = NumPrints
        /\ FileOf(r).touched = {r}

\* A failed step is the last step of its run
FailureIsLast(r) ==
    \A i \in 1..Len(hist[r]) : ~hist[r][i].ok => i = Len(hist[r]) /\ Exited(r)

\* C8: each of generate, create, chmod, write, close is attempted at most
\* once per run, nothing is attempted after a failure, and every run
\* eventually exits with status 0 or with status 1.
C8_SingleShotTerminates ==
    /\ [](\A r \in Runs :
             /\ \A s \in OnceSteps : Attempts(hist[r], s) <= 1
             /\ FailureIsLast(r))
    /\ <>(\A r \in Runs : Exited(r) /\ exitcode[r] \in {0, 1})

\* C8 witness: a run ended at a failed chmod having attempted neither write
\* nor close, while the other run completed.
C8_Witness ==
    \E r1, r2 \in Runs :
        /\ Exited(r1) /\ Failed(hist[r1], "chmod")
        /\ Attempts(hist[r1], "chmod") = 1
        /\ Attempts(hist[r1], "write") = 0 /\ Attempts(hist[r1], "close") = 0
        /\ exitcode[r2] = 0

\* C9: a run prints to standard output only after chmod, write and close have
\* succeeded, so a run in which create, chmod, write or close fails prints
\* nothing, and a printed path names a closed file of mode 0600 that holds
\* the whole secret.
C9_PrintAfterClose ==
    \A r \in Runs :
        /\ (\E s \in FsSteps : Failed(hist[r], s)) => stdout[r] = <<>>
        /\ stdout[r] # <<>> =>
              /\ \A s \in FsSteps : Succeeded(hist[r], s)
              /\ ~fdOpen[r]
              /\ buf[r] = <<>>
              /\ Contains(stdout[r][1], name[r])
              /\ FileOf(r).exists
              /\ FileOf(r).mode = M0600
              /\ FileOf(r).content = strong_password[r]

\* C9 witness: a run has printed its first line only, and the other run
\* failed in close with part of its secret in the file.
C9_Witness ==
    \E r1, r2 \in Runs :
        /\ Len(stdout[r1]) = 1
        /\ Failed(hist[r2], "close")
        /\ Len(FileOf(r2).content) = 1

\* C10: the script never deletes the file it created: the file exists in
\* every state after its creation, up to and including exit, whether the run
\* succeeds or fails in chmod, write or close.
C10_NeverDeleted ==
    \A r \in Runs :
        Succeeded(hist[r], "create") =>
            /\ Created(r)
            /\ FileOf(r).exists
            /\ FileOf(r).creator = r

\* C10 witness: one run exited with status 0, the other after a failed
\* write, and both files exist, the second one empty.
C10_Witness ==
    \E r1, r2 \in Runs :
        /\ exitcode[r1] = 0 /\ FileOf(r1).exists
        /\ Exited(r2) /\ Failed(hist[r2], "write")
        /\ FileOf(r2).exists /\ FileOf(r2).content = <<>>

====
